---- MODULE Spec2Model ----
(***************************************************************************)
(* A model of anki/notes.py (class Note): a note object in memory, the     *)
(* "notes", "nsums" and "cards" tables it reads and writes, the tag        *)
(* registry and the card generator it calls.                                *)
(*                                                                         *)
(* Strings are sequences of character codes.  A note id n has at most one  *)
(* Note object in memory, note[n]; notesTbl[n] is its row in the database. *)
(* Field ordinals are 0-based as in the code; sequences are 1-based, so    *)
(* self.fields[ord] is fields[ord + 1].                                     *)
(***************************************************************************)
EXTENDS Integers, Sequences, FiniteSets, Bags, TLC

VARIABLES note, notesTbl, nsums, cards, registry, genReqs, clock, last

vars == <<note, notesTbl, nsums, cards, registry, genReqs, clock, last>>

(***************************************************************************)
(* Bounds of the model.                                                     *)
(***************************************************************************)
\* the clock (intTime) runs from 1 to MaxTime
MaxTime == 2
\* genCards requests counted per note
MaxGen == 2
\* length of a note's tag list
MaxTags == 2
\* length of the joined field string a flush writes
MaxBlob == 5

NoteIds == {1, 2}

(***************************************************************************)
(* Characters and strings.                                                  *)
(***************************************************************************)
\* the field separator of joinFields/splitFields, "\x1f"
US == 31
\* a cloze deletion that belongs to card ordinal ord, as one character
ClozeMark(ord) == 100 + ord

EmptyStr == <<>>
\* two ordinary one-character strings
StrA == <<1>>
StrB == <<5>>
\* a string that holds the field separator: "\x1fa"
StrU == <<US>> \o StrA

\* field values assigned in the uniqueness specification, by field name
IdxVals(key) ==
    CASE key = "Front" -> {EmptyStr, StrA, StrB, StrU}
      [] key = "Back"  -> {EmptyStr, StrA, StrB}
      [] key = "Text"  -> {EmptyStr, StrA}
      [] key = "Extra" -> {EmptyStr, StrA, StrB}
      [] OTHER         -> {EmptyStr}
\* field values assigned in the cloze specification
ClozeVals == {EmptyStr, <<ClozeMark(0)>>, <<ClozeMark(1)>>}
\* field values assigned in the round-trip specification
RoundVals == {EmptyStr, StrA, StrU}

RECURSIVE SumCodes(_)
SumCodes(s) == IF s = <<>> THEN 0 ELSE Head(s) + SumCodes(Tail(s))

\* anki.utils.fieldChecksum: a 32-bit number cut from a hash of the string;
\* here a small hash with collisions (StrA and StrB collide)
fieldChecksum(val) == SumCodes(val) % 4

\* anki.utils.joinFields: "\x1f".join(list)
RECURSIVE joinFields(_)
joinFields(list) ==
    IF list = <<>> THEN <<>>
    ELSE IF Len(list) = 1 THEN list[1]
    ELSE list[1] \o <<US>> \o joinFields(Tail(list))

\* anki.utils.splitFields: string.split("\x1f")
RECURSIVE splitFields(_)
splitFields(s) ==
    IF \A i \in 1..Len(s) : s[i] # US THEN <<s>>
    ELSE LET i == CHOOSE i \in 1..Len(s) :
                      s[i] = US /\ \A j \in 1..(i - 1) : s[j] # US
         IN  <<SubSeq(s, 1, i - 1)>> \o splitFields(SubSeq(s, i + 1, Len(s)))

(***************************************************************************)
(* The template sets (models) of the collection.                           *)
(***************************************************************************)
ModelIds == {1, 2}

\* deck.models.get(mid): model 1 is a plain model, model 2 a cloze model
Models(m) ==
    IF m = 1
    THEN [id |-> 1, cloze |-> FALSE, gid |-> 1, sortf |-> 0,
          flds |-> << [name |-> "Front", uniq |-> TRUE, req |-> TRUE],
                      [name |-> "Back", uniq |-> TRUE, req |-> FALSE] >>]
    ELSE [id |-> 2, cloze |-> TRUE, gid |-> 1, sortf |-> 0,
          flds |-> << [name |-> "Text", uniq |-> FALSE, req |-> TRUE],
                      [name |-> "Extra", uniq |-> TRUE, req |-> FALSE] >>]

FieldNames(m) == {Models(m).flds[i].name : i \in 1..Len(Models(m).flds)}

\* deck.models.fieldMap(model): name -> (ord, conf)
fieldMap(m) ==
    [k \in FieldNames(m) |->
        LET i == CHOOSE i \in 1..Len(Models(m).flds) : Models(m).flds[i].name = k
        IN  [ord |-> i - 1, conf |-> Models(m).flds[i]]]

\* deck.usn()
DeckUsn == 0

(***************************************************************************)
(* Tags.  A tag is a word; the tag service joins words with spaces.        *)
(***************************************************************************)
Tags == {"foo", "FOO", "Bar"}
SP == " "

\* a fixed order on tags, used where the tag service sorts
TagRank(t) == CASE t = "Bar" -> 1 [] t = "FOO" -> 2 [] t = "foo" -> 3 [] OTHER -> 4

RECURSIVE SortTags(_)
SortTags(S) ==
    IF S = {} THEN <<>>
    ELSE LET t == CHOOSE t \in S : \A u \in S : TagRank(t) <= TagRank(u)
         IN  <<t>> \o SortTags(S \ {t})

SeqToSet(s) == {s[i] : i \in 1..Len(s)}

\* deck.tags.canonify: strip duplicates
canonify(tags) == SortTags(SeqToSet(tags))

\* deck.tags.join: the words separated and surrounded by spaces
RECURSIVE tagsJoin(_)
tagsJoin(tags) ==
    IF tags = <<>> THEN <<>>
    ELSE IF Len(tags) = 1 THEN <<SP, tags[1], SP>>
    ELSE <<SP, tags[1]>> \o tagsJoin(Tail(tags))

\* deck.tags.split: the words of the text
tagsSplit(text) == SelectSeq(text, LAMBDA w : w # SP)

(***************************************************************************)
(* Note objects and rows.                                                   *)
(***************************************************************************)
\* no Note object for this id / no row under this id
NoNote == [live |-> FALSE, mid |-> 0, gid |-> 0, fields |-> <<>>, tags |-> <<>>,
           flags |-> 0, data |-> <<>>, mod |-> 0, usn |-> 0 - 1,
           newlyAdded |-> "unset"]
NoRow == [live |-> FALSE, mid |-> 0, gid |-> 0, mod |-> 0, usn |-> 0 - 1,
          tags |-> <<>>, flds |-> <<>>, flags |-> 0, data |-> <<>>]

\* Note.__init__ with a model: a fresh note with all fields empty.
\* mod and usn are not set before the first flush (0 and -1 stand for that).
NewNote(m) ==
    [live |-> TRUE, mid |-> Models(m).id, gid |-> Models(m).gid,
     fields |-> [i \in 1..Len(Models(m).flds) |-> EmptyStr], tags |-> <<>>,
     flags |-> 0, data |-> <<>>, mod |-> 0, usn |-> 0 - 1,
     newlyAdded |-> "unset"]

\* Note.model
model(n) == Models(note[n].mid)

\* Note._fmap
fmap(n) == fieldMap(note[n].mid)

\* Note.joinedFields
joinedFields(n) == joinFields(note[n].fields)

\* Note.stringTags
stringTags(n) == tagsJoin(canonify(note[n].tags))

(***************************************************************************)
(* The uniqueness index.                                                    *)
(***************************************************************************)
\* the rows of table nsums that belong to note n
RowsOf(n) == {r \in BagToSet(nsums) : r.nid = n}

\* the rows updateFieldChecksums appends to d for the field definitions from
\* ordinal i - 1 on, as a bag
RECURSIVE ChecksumRows(_, _)
ChecksumRows(n, i) ==
    IF i > Len(Models(note[n].mid).flds) THEN EmptyBag
    ELSE LET conf == Models(note[n].mid).flds[i]
             val  == note[n].fields[i]
             rest == ChecksumRows(n, i + 1)
         IN  IF ~conf.uniq THEN rest
             ELSE IF val = EmptyStr THEN rest
             ELSE SetToBag({[nid |-> n, mid |-> note[n].mid,
                             csum |-> fieldChecksum(val)]}) (+) rest

\* updateFieldChecksums without its "delete from nsums where nid = ?"
updateFieldChecksumsNoDelete(n) ==
    nsums (+) ChecksumRows(n, 1)

\* updateFieldChecksums with a delete that is not limited to the note
updateFieldChecksumsDeleteAll(n) ==
    ChecksumRows(n, 1)

\* Note.updateFieldChecksums: the nsums table after it
updateFieldChecksums(n) ==
    LET kept == [r \in (DOMAIN nsums) \ RowsOf(n) |-> nsums[r]]
    IN  kept (+) ChecksumRows(n, 1)

(***************************************************************************)
(* Unique/duplicate checks.                                                 *)
(***************************************************************************)
\* the nids the nsums query of fieldUnique selects
uniqueCandidates(n, csum) ==
    {r.nid : r \in {r \in BagToSet(nsums) :
                       r.csum = csum /\ r.nid # n /\ r.mid = note[n].mid}}

\* fieldUnique without its "if not val: return True"
fieldUniqueNoEmptyCheck(n, name) ==
    LET ord  == fmap(n)[name].ord
        conf == fmap(n)[name].conf
        val  == note[n].fields[ord + 1]
        nids == uniqueCandidates(n, fieldChecksum(val))
    IN  IF ~conf.uniq THEN TRUE
        ELSE IF nids = {} THEN TRUE
        ELSE ~\E nid \in nids :
                  /\ notesTbl[nid].live
                  /\ splitFields(notesTbl[nid].flds)[ord + 1] = val

\* Note.fieldUnique
fieldUnique(n, name) ==
    LET ord  == fmap(n)[name].ord
        conf == fmap(n)[name].conf
        val  == note[n].fields[ord + 1]
        nids == uniqueCandidates(n, fieldChecksum(val))
    IN  IF ~conf.uniq THEN TRUE
        ELSE IF val = EmptyStr THEN TRUE
        ELSE IF nids = {} THEN TRUE
        ELSE ~\E nid \in nids :
                  /\ notesTbl[nid].live
                  /\ splitFields(notesTbl[nid].flds)[ord + 1] = val

\* fieldComplete without its "if not conf['req']: return True"
fieldCompleteAlwaysReq(n, name) ==
    note[n].fields[fmap(n)[name].ord + 1] # EmptyStr

\* Note.fieldComplete (the truth value of what it returns)
fieldComplete(n, name) ==
    LET ord  == fmap(n)[name].ord
        conf == fmap(n)[name].conf
    IN  IF ~conf.req THEN TRUE
        ELSE note[n].fields[ord + 1] # EmptyStr

\* the pairs (ord, problem) Note.problems collects in d
problemPairs(n) ==
    {[ord |-> fmap(n)[k].ord,
      kind |-> IF ~fieldUnique(n, k) THEN "unique"
               ELSE IF ~fieldComplete(n, k) THEN "required"
               ELSE "none"] : k \in DOMAIN fmap(n)}

\* Note.problems: the problems of sorted(d)
problems(n) ==
    LET d == problemPairs(n)
    IN  [i \in 1..Cardinality(d) |->
            (CHOOSE x \in d :
                Cardinality({y \in d : y.ord < x.ord}) = i - 1).kind]

(***************************************************************************)
(* Cloze notes.                                                             *)
(***************************************************************************)
\* the card ordinals a field sequence references
templateOrds(fields) ==
    {c - ClozeMark(0) :
        c \in {c \in UNION {SeqToSet(fields[i]) : i \in 1..Len(fields)} :
                  c >= ClozeMark(0)}}

\* the ordinals of deck.findTemplates(note)
findTemplateOrds(n) == templateOrds(note[n].fields)

\* the cards of note n
cardsOf(n) == {c \in cards : c.nid = n}

\* _clozePreFlush with "select 1 from cards" not limited to the note
newlyAddedAnyCard(n) == cards = {}

\* Note._clozePreFlush: the value it gives self.newlyAdded
newlyAdded(n) == cardsOf(n) = {}

\* Note._clozePreFlush: whether it raises
clozePreFlushRaises(n) ==
    \E c \in cardsOf(n) : c.ord \notin findTemplateOrds(n)

\* _clozePostFlush with the test the other way round
clozePostFlushGenIfNew(newly) == newly = "true"

\* Note._clozePostFlush: whether it calls deck.genCards([self.id]), given
\* self.newlyAdded
clozePostFlushGen(newly) == newly # "true"

\* deck.genCards([n]) after the row of n is written from the fields given:
\* the cards table with the missing cards of note n generated
genCards(n, fields, gid) ==
    cards \cup {[nid |-> n, ord |-> o, gid |-> gid] :
                   o \in {o \in templateOrds(fields) :
                             ~\E c \in cardsOf(n) : c.ord = o}}

(***************************************************************************)
(* Flush.                                                                   *)
(***************************************************************************)
\* the pairs of problemPairs, written so that it can be used before problems
hasProblems(n) ==
    \E k \in DOMAIN fmap(n) : ~fieldUnique(n, k) \/ ~fieldComplete(n, k)

\* a flush that refuses a note with problems
flushRaisesOnProblems(n) ==
    (model(n).cloze /\ clozePreFlushRaises(n)) \/ hasProblems(n)

\* Note.flush: whether it raises before writing
flushRaises(n) == model(n).cloze /\ clozePreFlushRaises(n)

\* a flush that stamps mod and usn before the cloze check
noteAfterRaiseStamped(n, modArg) ==
    [note[n] EXCEPT !.newlyAdded = IF newlyAdded(n) THEN "true" ELSE "false",
                    !.mod = IF modArg # 0 THEN modArg ELSE clock,
                    !.usn = DeckUsn]

\* the Note object when flush has raised in _clozePreFlush
noteAfterRaise(n, modArg) ==
    [note[n] EXCEPT !.newlyAdded = IF newlyAdded(n) THEN "true" ELSE "false"]

\* the Note object when flush has returned
noteAfterFlush(n, modArg) ==
    [note[n] EXCEPT
        !.newlyAdded = IF model(n).cloze
                       THEN (IF newlyAdded(n) THEN "true" ELSE "false")
                       ELSE @,
        !.mod = IF modArg # 0 THEN modArg ELSE clock,
        !.usn = DeckUsn]

\* the row "insert or replace into notes" writes for the Note object o
noteRow(o) ==
    [live |-> TRUE, mid |-> o.mid, gid |-> o.gid, mod |-> o.mod, usn |-> o.usn,
     tags |-> tagsJoin(canonify(o.tags)), flds |-> joinFields(o.fields),
     flags |-> o.flags, data |-> o.data]

\* Note.flush(mod): modArg = 0 stands for mod = None
Flush(n, modArg) ==
    /\ note[n].live
    /\ Len(joinedFields(n)) <= MaxBlob
    /\ IF flushRaises(n)
       THEN /\ note' = [note EXCEPT ![n] = noteAfterRaise(n, modArg)]
            /\ last' = [op |-> "flush", nid |-> n, ok |-> FALSE]
            /\ UNCHANGED <<notesTbl, nsums, cards, registry, genReqs, clock>>
       ELSE /\ note' = [note EXCEPT ![n] = noteAfterFlush(n, modArg)]
            /\ notesTbl' = [notesTbl EXCEPT ![n] = noteRow(note'[n])]
            /\ nsums' = updateFieldChecksums(n)
            /\ registry' = registry \cup SeqToSet(note[n].tags)
            /\ IF model(n).cloze /\ clozePostFlushGen(note'[n].newlyAdded)
               THEN /\ genReqs[n] < MaxGen
                    /\ genReqs' = [genReqs EXCEPT ![n] = @ + 1]
                    /\ cards' = genCards(n, note[n].fields, note[n].gid)
               ELSE UNCHANGED <<genReqs, cards>>
            /\ last' = [op |-> "flush", nid |-> n, ok |-> TRUE]
            /\ UNCHANGED clock

(***************************************************************************)
(* Flush, statement by statement.  While a flush runs, last holds the note *)
(* being flushed, the mod argument and the statements already executed.    *)
(***************************************************************************)
\* a flush that rebuilds the index before it writes the row
flushOrderIndexFirst == <<"pre", "index", "write", "register", "post">>

\* Note.flush: its statements in the order of the code
\*   pre      : _clozePreFlush for a cloze model, then self.mod and self.usn
\*   write    : insert or replace into notes
\*   index    : self.updateFieldChecksums()
\*   register : self.deck.tags.register(self.tags)
\*   post     : _clozePostFlush for a cloze model
flushOrder == <<"pre", "write", "index", "register", "post">>

\* a flush is running
flushing == last.op = "flushing"

\* the statement the running flush executes next, "return" after the last one
nextStatement ==
    IF \A i \in 1..Len(flushOrder) : flushOrder[i] \in last.done
    THEN "return"
    ELSE flushOrder[CHOOSE i \in 1..Len(flushOrder) :
                        /\ flushOrder[i] \notin last.done
                        /\ \A j \in 1..(i - 1) : flushOrder[j] \in last.done]

\* the call note.flush(mod)
FlushBegin(n, modArg) ==
    /\ ~flushing
    /\ note[n].live
    /\ Len(joinedFields(n)) <= MaxBlob
    /\ (model(n).cloze /\ ~flushRaises(n)
          /\ clozePostFlushGen(IF newlyAdded(n) THEN "true" ELSE "false"))
           => genReqs[n] < MaxGen
    /\ last' = [op |-> "flushing", nid |-> n, ok |-> TRUE, modArg |-> modArg,
                done |-> {}]
    /\ UNCHANGED <<note, notesTbl, nsums, cards, registry, genReqs, clock>>

\* flush, the cloze check and the stamps
FlushPre(n) ==
    /\ flushing /\ last.nid = n /\ nextStatement = "pre"
    /\ IF flushRaises(n)
       THEN /\ note' = [note EXCEPT ![n] = noteAfterRaise(n, last.modArg)]
            /\ last' = [op |-> "flush", nid |-> n, ok |-> FALSE]
       ELSE /\ note' = [note EXCEPT ![n] = noteAfterFlush(n, last.modArg)]
            /\ last' = [last EXCEPT !.done = @ \cup {"pre"}]
    /\ UNCHANGED <<notesTbl, nsums, cards, registry, genReqs, clock>>

\* flush, the insert
FlushWrite(n) ==
    /\ flushing /\ last.nid = n /\ nextStatement = "write"
    /\ notesTbl' = [notesTbl EXCEPT ![n] = noteRow(note[n])]
    /\ last' = [last EXCEPT !.done = @ \cup {"write"}]
    /\ UNCHANGED <<note, nsums, cards, registry, genReqs, clock>>

\* flush, the call of updateFieldChecksums
FlushIndex(n) ==
    /\ flushing /\ last.nid = n /\ nextStatement = "index"
    /\ nsums' = updateFieldChecksums(n)
    /\ last' = [last EXCEPT !.done = @ \cup {"index"}]
    /\ UNCHANGED <<note, notesTbl, cards, registry, genReqs, clock>>

\* flush, the call of deck.tags.register
FlushRegister(n) ==
    /\ flushing /\ last.nid = n /\ nextStatement = "register"
    /\ registry' = registry \cup SeqToSet(note[n].tags)
    /\ last' = [last EXCEPT !.done = @ \cup {"register"}]
    /\ UNCHANGED <<note, notesTbl, nsums, cards, genReqs, clock>>

\* flush, the call of _clozePostFlush
FlushPost(n) ==
    /\ flushing /\ last.nid = n /\ nextStatement = "post"
    /\ IF model(n).cloze /\ clozePostFlushGen(note[n].newlyAdded)
       THEN /\ genReqs' = [genReqs EXCEPT ![n] = @ + 1]
            /\ cards' = genCards(n, note[n].fields, note[n].gid)
       ELSE UNCHANGED <<genReqs, cards>>
    /\ last' = [last EXCEPT !.done = @ \cup {"post"}]
    /\ UNCHANGED <<note, notesTbl, nsums, registry, clock>>

\* flush returns
FlushEnd(n) ==
    /\ flushing /\ last.nid = n /\ nextStatement = "return"
    /\ last' = [op |-> "flush", nid |-> n, ok |-> TRUE]
    /\ UNCHANGED <<note, notesTbl, nsums, cards, registry, genReqs, clock>>

(***************************************************************************)
(* The other operations.                                                    *)
(***************************************************************************)
\* Note(deck, model): a fresh note; timestampID gives an id no row has
Create(n, m) ==
    /\ ~note[n].live
    /\ ~notesTbl[n].live
    /\ note' = [note EXCEPT ![n] = NewNote(m)]
    /\ last' = [op |-> "other", nid |-> 0, ok |-> TRUE]
    /\ UNCHANGED <<notesTbl, nsums, cards, registry, genReqs, clock>>

\* _fieldOrd without the KeyError: an unknown key falls on ordinal 0
fieldOrdDefault(n, key) ==
    IF key \in DOMAIN fmap(n) THEN fmap(n)[key].ord ELSE 0

\* Note._fieldOrd: the ordinal of the key; -1 stands for raising KeyError
fieldOrd(n, key) ==
    IF key \in DOMAIN fmap(n) THEN fmap(n)[key].ord ELSE 0 - 1

\* Note.__getitem__: the value, or "KeyError"
getitem(n, key) ==
    IF fieldOrd(n, key) < 0 THEN "KeyError"
    ELSE note[n].fields[fieldOrd(n, key) + 1]

\* Note.__setitem__: self.fields after note[key] = value (unchanged when
\* _fieldOrd raises)
setitem(n, key, value) ==
    IF fieldOrd(n, key) < 0 THEN note[n].fields
    ELSE [note[n].fields EXCEPT ![fieldOrd(n, key) + 1] = value]

\* Note.__setitem__: note[key] = value; KeyError for an unknown key
SetField(n, key, value) ==
    /\ note[n].live
    /\ IF fieldOrd(n, key) >= 0
       THEN /\ note' = [note EXCEPT ![n].fields = setitem(n, key, value)]
            /\ last' = [op |-> "other", nid |-> 0, ok |-> TRUE]
       ELSE /\ last' = [op |-> "set", nid |-> n, ok |-> FALSE]
            /\ UNCHANGED note
    /\ UNCHANGED <<notesTbl, nsums, cards, registry, genReqs, clock>>

\* Note.__getitem__: note[key]; KeyError for an unknown key
GetField(n, key) ==
    /\ note[n].live
    /\ last' = IF getitem(n, key) = "KeyError"
               THEN [op |-> "get", nid |-> n, ok |-> FALSE]
               ELSE [op |-> "other", nid |-> 0, ok |-> TRUE]
    /\ UNCHANGED <<note, notesTbl, nsums, cards, registry, genReqs, clock>>

\* Note.addTag
addTag(n, tag) ==
    /\ note[n].live
    /\ Len(note[n].tags) < MaxTags
    /\ note' = [note EXCEPT ![n].tags = Append(@, tag)]
    /\ last' = [op |-> "other", nid |-> 0, ok |-> TRUE]
    /\ UNCHANGED <<notesTbl, nsums, cards, registry, genReqs, clock>>

\* str.lower on the tags in use
lower(t) ==
    CASE t = "foo" -> "foo" [] t = "FOO" -> "foo" [] t = "Foo" -> "foo"
      [] t = "Bar" -> "bar" [] OTHER -> t

\* list.remove(x): the list without the first element equal to x
RECURSIVE listRemove(_, _)
listRemove(s, x) ==
    IF s = <<>> THEN <<>>
    ELSE IF Head(s) = x THEN Tail(s)
    ELSE <<Head(s)>> \o listRemove(Tail(s), x)

\* for r in rem: self.tags.remove(r)
RECURSIVE removeEach(_, _)
removeEach(tags, rem) ==
    IF rem = <<>> THEN tags
    ELSE removeEach(listRemove(tags, Head(rem)), Tail(rem))

\* a delTag that compares the tags as written
tagsAfterDelExact(tags, tag) ==
    removeEach(tags, SelectSeq(tags, LAMBDA t : t = tag))

\* Note.delTag: self.tags after delTag(tag); rem collects the tags equal to
\* tag in lower case, then each is removed from self.tags
tagsAfterDel(tags, tag) ==
    removeEach(tags, SelectSeq(tags, LAMBDA t : lower(t) = lower(tag)))

\* Note.delTag
delTag(n, tag) ==
    /\ note[n].live
    /\ note' = [note EXCEPT ![n].tags = tagsAfterDel(@, tag)]
    /\ last' = [op |-> "delTag", nid |-> n, ok |-> TRUE, tag |-> tag,
                before |-> note[n].tags]
    /\ UNCHANGED <<notesTbl, nsums, cards, registry, genReqs, clock>>

\* Note.setTagsFromStr
setTagsFromStr(n, text) ==
    /\ note[n].live
    /\ note' = [note EXCEPT ![n].tags = tagsSplit(text)]
    /\ last' = [op |-> "other", nid |-> 0, ok |-> TRUE]
    /\ UNCHANGED <<notesTbl, nsums, cards, registry, genReqs, clock>>

\* the groups a note or a card can be in
Groups == {1, 2}

\* card.template()['gid']: the group the template of the card pins, 0 for a
\* template that pins none; the second cloze template pins the default group
templateGid(mid, ord) == IF mid = 2 /\ ord = 1 THEN 1 ELSE 0

\* note.gid = g
SetGid(n, g) ==
    /\ note[n].live
    /\ note' = [note EXCEPT ![n].gid = g]
    /\ last' = [op |-> "other", nid |-> 0, ok |-> TRUE]
    /\ UNCHANGED <<notesTbl, nsums, cards, registry, genReqs, clock>>

\* updateCardGids without the test of the template's own group
cardsToRegroupAnyTemplate(n) ==
    {c \in cardsOf(n) : c.gid # note[n].gid}

\* Note.updateCardGids: the cards whose gid is set and which are flushed
cardsToRegroup(n) ==
    {c \in cardsOf(n) :
        c.gid # note[n].gid /\ templateGid(note[n].mid, c.ord) = 0}

\* Note.updateCardGids
updateCardGids(n) ==
    /\ note[n].live
    /\ cards' = (cards \ cardsToRegroup(n)) \cup
                {[c EXCEPT !.gid = note[n].gid] : c \in cardsToRegroup(n)}
    /\ last' = [op |-> "updateCardGids", nid |-> n, ok |-> TRUE,
                flushed |-> {c.ord : c \in cardsToRegroup(n)}]
    /\ UNCHANGED <<note, notesTbl, nsums, registry, genReqs, clock>>

\* Note.load: the Note object read from the row of id n
loaded(n) ==
    [live |-> TRUE, mid |-> notesTbl[n].mid, gid |-> notesTbl[n].gid,
     fields |-> splitFields(notesTbl[n].flds),
     tags |-> tagsSplit(notesTbl[n].tags),
     flags |-> notesTbl[n].flags, data |-> notesTbl[n].data,
     mod |-> notesTbl[n].mod, usn |-> notesTbl[n].usn, newlyAdded |-> "unset"]

\* a constructor that builds the object whether or not a row was found
LoadUnchecked(n) ==
    /\ note' = [note EXCEPT ![n] = loaded(n)]
    /\ last' = [op |-> "load", nid |-> n, ok |-> TRUE]
    /\ UNCHANGED <<notesTbl, nsums, cards, registry, genReqs, clock>>

\* Note(deck, id=n): a Note object for a stored note, in place of any older
\* object for the id; with no row under the id the constructor raises (the
\* unpacking of None in load) and leaves no object
Load(n) ==
    /\ IF notesTbl[n].live
       THEN /\ note' = [note EXCEPT ![n] = loaded(n)]
            /\ last' = [op |-> "load", nid |-> n, ok |-> TRUE]
       ELSE /\ last' = [op |-> "load", nid |-> n, ok |-> FALSE]
            /\ UNCHANGED note
    /\ UNCHANGED <<notesTbl, nsums, cards, registry, genReqs, clock>>

\* time passes
Tick ==
    /\ clock < MaxTime
    /\ clock' = clock + 1
    /\ last' = [op |-> "other", nid |-> 0, ok |-> TRUE]
    /\ UNCHANGED <<note, notesTbl, nsums, cards, registry, genReqs>>

\* the collection generates the cards of a stored note outside of a flush
\* (deck.addNote, deck.genCards)
DeckGenCards(n) ==
    /\ notesTbl[n].live
    /\ cards' = genCards(n, splitFields(notesTbl[n].flds), notesTbl[n].gid)
    /\ last' = [op |-> "other", nid |-> 0, ok |-> TRUE]
    /\ UNCHANGED <<note, notesTbl, nsums, registry, genReqs, clock>>

\* the collection deletes a card (deck.remCards)
DeckRemCard(c) ==
    /\ c \in cards
    /\ cards' = cards \ {c}
    /\ last' = [op |-> "other", nid |-> 0, ok |-> TRUE]
    /\ UNCHANGED <<note, notesTbl, nsums, registry, genReqs, clock>>

(***************************************************************************)
(* The uniqueness specification: two notes, their fields and flushes.      *)
(***************************************************************************)
Init ==
    /\ note = [n \in NoteIds |-> NoNote]
    /\ notesTbl = [n \in NoteIds |-> NoRow]
    /\ nsums = EmptyBag
    /\ cards = {}
    /\ registry = {}
    /\ genReqs = [n \in NoteIds |-> 0]
    /\ clock = 1
    /\ last = [op |-> "other", nid |-> 0, ok |-> TRUE]

Next ==
    \/ \E n \in NoteIds, m \in ModelIds : Create(n, m)
    \/ \E n \in NoteIds : \E k \in FieldNames(note[n].mid) : \E v \in IdxVals(k) :
           SetField(n, k, v)
    \/ \E n \in NoteIds : Flush(n, 0)

Spec == Init /\ [][Next]_vars

(***************************************************************************)
(* The cloze specification: note 1 is created, edited and flushed while    *)
(* the collection generates and deletes its cards; the collection already  *)
(* holds a cloze note 2 with one card.                                      *)
(***************************************************************************)
ClozeNotes == {1}

\* the stored cloze note the collection starts with: its row and its card
StoredCloze ==
    [live |-> TRUE, mid |-> 2, gid |-> 1, mod |-> 1, usn |-> DeckUsn,
     tags |-> <<>>, flds |-> joinFields(<< <<ClozeMark(1)>>, EmptyStr >>),
     flags |-> 0, data |-> <<>>]

InitCloze ==
    /\ note = [n \in NoteIds |-> NoNote]
    /\ notesTbl = [n \in NoteIds |-> IF n = 2 THEN StoredCloze ELSE NoRow]
    /\ nsums = EmptyBag
    /\ cards = {[nid |-> 2, ord |-> 1, gid |-> 1]}
    /\ registry = {}
    /\ genReqs = [n \in NoteIds |-> 0]
    /\ clock = 1
    /\ last = [op |-> "other", nid |-> 0, ok |-> TRUE]

NextCloze ==
    \/ \E n \in ClozeNotes, m \in ModelIds : Create(n, m)
    \/ \E n \in ClozeNotes : \E k \in FieldNames(note[n].mid) : \E v \in ClozeVals :
           SetField(n, k, v)
    \/ \E n \in ClozeNotes : addTag(n, "foo")
    \/ \E n \in ClozeNotes, modArg \in {0, MaxTime} : Flush(n, modArg)
    \/ \E n \in ClozeNotes : DeckGenCards(n)
    \/ \E c \in cards : c.nid \in ClozeNotes /\ DeckRemCard(c)
    \/ Tick

SpecCloze == InitCloze /\ [][NextCloze]_vars

(***************************************************************************)
(* The round-trip specification: one note, its fields and tags, flush and  *)
(* load.                                                                    *)
(***************************************************************************)
RoundNotes == {1}

\* a key that is no field name of any model
UnknownKey == "Bogus"
AllKeys == FieldNames(1) \cup FieldNames(2) \cup {UnknownKey}

NextRound ==
    \/ \E n \in RoundNotes, m \in ModelIds : Create(n, m)
    \/ \E n \in RoundNotes : \E k \in FieldNames(note[n].mid) : \E v \in RoundVals :
           SetField(n, k, v)
    \/ \E n \in RoundNotes, t \in {"foo", "Bar"} : addTag(n, t)
    \/ \E n \in RoundNotes : Flush(n, 0)
    \/ \E n \in RoundNotes : Load(n)

SpecRound == Init /\ [][NextRound]_vars

\* Keyed access: fields are read and written under known and unknown keys,
\* and ids are loaded with and without a stored row
NextKeys ==
    \/ \E n \in RoundNotes, m \in ModelIds : Create(n, m)
    \/ \E n \in RoundNotes, k \in AllKeys, v \in RoundVals : SetField(n, k, v)
    \/ \E n \in RoundNotes, k \in AllKeys : GetField(n, k)
    \/ \E n \in RoundNotes : Flush(n, 0)
    \/ \E n \in RoundNotes : Load(n)

SpecKeys == Init /\ [][NextKeys]_vars

\* Tag lists: one note whose tags are set from text, appended and removed
TagTexts == {<<>>, tagsJoin(<<"foo", "Bar", "FOO">>), tagsJoin(<<"FOO", "FOO", "Bar">>)}
DelArgs == Tags \cup {"Foo"}

NextTags ==
    \/ \E n \in RoundNotes, m \in ModelIds : Create(n, m)
    \/ \E n \in RoundNotes, text \in TagTexts : setTagsFromStr(n, text)
    \/ \E n \in RoundNotes, t \in Tags : addTag(n, t)
    \/ \E n \in RoundNotes, t \in DelArgs : delTag(n, t)
    \/ \E n \in RoundNotes : Flush(n, 0)
    \/ \E n \in RoundNotes : Load(n)

SpecTags == Init /\ [][NextTags]_vars

(***************************************************************************)
(* The group specification: two stored cloze notes with a card of either   *)
(* template each; notes are loaded, moved to a group and flushed, and the  *)
(* group is carried over to their cards.                                   *)
(***************************************************************************)
StoredBoth ==
    [StoredCloze EXCEPT
        !.flds = joinFields(<< <<ClozeMark(0), ClozeMark(1)>>, EmptyStr >>)]

InitGroup ==
    /\ note = [n \in NoteIds |-> NoNote]
    /\ notesTbl = [n \in NoteIds |-> StoredBoth]
    /\ nsums = EmptyBag
    /\ cards = {[nid |-> n, ord |-> o, gid |-> StoredBoth.gid] :
                   n \in NoteIds, o \in templateOrds(splitFields(StoredBoth.flds))}
    /\ registry = {}
    /\ genReqs = [n \in NoteIds |-> 0]
    /\ clock = 1
    /\ last = [op |-> "other", nid |-> 0, ok |-> TRUE]

NextGroup ==
    \/ \E n \in NoteIds : Load(n)
    \/ \E n \in NoteIds, g \in Groups : SetGid(n, g)
    \/ \E n \in NoteIds : updateCardGids(n)
    \/ \E n \in NoteIds : Flush(n, 0)

SpecGroup == InitGroup /\ [][NextGroup]_vars

(***************************************************************************)
(* The statement specification: the cloze specification with flush taken   *)
(* one statement at a time; nothing else runs while a flush runs.          *)
(***************************************************************************)
NextSteps ==
    \/ ~flushing /\ \E n \in ClozeNotes, m \in ModelIds : Create(n, m)
    \/ ~flushing /\ \E n \in ClozeNotes : \E k \in FieldNames(note[n].mid) :
           \E v \in ClozeVals : SetField(n, k, v)
    \/ ~flushing /\ \E n \in ClozeNotes : addTag(n, "foo")
    \/ ~flushing /\ \E n \in ClozeNotes : DeckGenCards(n)
    \/ ~flushing /\ \E c \in cards : c.nid \in ClozeNotes /\ DeckRemCard(c)
    \/ \E n \in ClozeNotes : FlushBegin(n, 0)
    \/ \E n \in ClozeNotes : FlushPre(n)
    \/ \E n \in ClozeNotes : FlushWrite(n)
    \/ \E n \in ClozeNotes : FlushIndex(n)
    \/ \E n \in ClozeNotes : FlushRegister(n)
    \/ \E n \in ClozeNotes : FlushPost(n)
    \/ \E n \in ClozeNotes : FlushEnd(n)

SpecSteps == InitCloze /\ [][NextSteps]_vars

(***************************************************************************)
(* Properties of the uniqueness index and of the checks (under Spec).      *)
(***************************************************************************)
\* the positions of note n's unique-constrained fields that are not empty
UniqueNonEmpty(n) ==
    {i \in 1..Len(Models(note[n].mid).flds) :
        Models(note[n].mid).flds[i].uniq /\ note[n].fields[i] # EmptyStr}

\* the index row of position i of note n
IndexRow(n, i) ==
    [nid |-> n, mid |-> note[n].mid, csum |-> fieldChecksum(note[n].fields[i])]

FlushedOk(n) == last.op = "flush" /\ last.nid = n /\ last.ok

\* the row of note n holds what the Note object holds
InSync(n) ==
    note[n].live /\ notesTbl[n].live /\ notesTbl[n].flds = joinedFields(n)

\* C1: right after a completed flush of note n, the nsums rows with nid n are
\* exactly one row (n, mid, checksum(value)) for each unique-constrained
\* field whose current value is not empty, and no other row.
C1_IndexExactAfterFlush ==
    \A n \in NoteIds :
        FlushedOk(n) =>
            \A r \in RowsOf(n) \cup {IndexRow(n, i) : i \in UniqueNonEmpty(n)} :
                CopiesIn(r, nsums) =
                    Cardinality({i \in UniqueNonEmpty(n) : IndexRow(n, i) = r})

\* a flush has left two equal rows for two unique fields with one checksum,
\* while the other note keeps a row of its own
C1_Witness ==
    /\ FlushedOk(1)
    /\ Cardinality(UniqueNonEmpty(1)) = 2
    /\ \E r \in RowsOf(1) : CopiesIn(r, nsums) = 2
    /\ RowsOf(2) # {}

C8_EmptyNeverConflicts ==
    \A n \in NoteIds :
        note[n].live =>
            /\ \A k \in DOMAIN fmap(n) :
                  LET i == fmap(n)[k].ord + 1
                  IN  (fmap(n)[k].conf.uniq /\ note[n].fields[i] = EmptyStr) =>
                          (fieldUnique(n, k) /\ problems(n)[i] # "unique")
            /\ FlushedOk(n) =>
                  BagCardinality([r \in RowsOf(n) |-> nsums[r]])
                      = Cardinality(UniqueNonEmpty(n))

\* note 1 has just been flushed with its unique fields empty while note 2, of
\* the same template set, is persisted with them empty too and with a row
\* whose stored first field reads back empty
C8_Witness ==
    /\ FlushedOk(1)
    /\ note[1].mid = 1 /\ note[2].mid = 1
    /\ UniqueNonEmpty(1) = {}
    /\ InSync(2)
    /\ splitFields(notesTbl[2].flds)[1] = EmptyStr
    /\ RowsOf(1) = {}

\* C9: problems() has one entry per field definition, in field order: "unique"
\* when fieldUnique is false, else "required" when the field is required and
\* empty, else none.
C9_ProblemsPerField ==
    \A n \in NoteIds :
        note[n].live =>
            /\ Len(problems(n)) = Len(Models(note[n].mid).flds)
            /\ \A i \in 1..Len(Models(note[n].mid).flds) :
                  LET f == Models(note[n].mid).flds[i]
                  IN  problems(n)[i] =
                          IF ~fieldUnique(n, f.name) THEN "unique"
                          ELSE IF f.req /\ note[n].fields[i] = EmptyStr
                               THEN "required"
                          ELSE "none"

\* a note with an empty required first field and a duplicate second field,
\* and a note with an empty field that is not required
C9_Witness ==
    /\ note[1].live /\ note[1].mid = 1
    /\ problems(1) = <<"required", "unique">>
    /\ note[2].live /\ note[2].fields[2] = EmptyStr
    /\ problems(2)[2] = "none"

\* C10: a flush of a note whose problems() reports "unique" or "required"
\* still succeeds (unless the cloze check raises) and writes the row and the
\* index rows.
C10_FlushIgnoresProblems ==
    \A n \in NoteIds :
        (last.op = "flush" /\ last.nid = n /\ hasProblems(n)) =>
            \/ /\ last.ok
               /\ InSync(n)
               /\ \A i \in UniqueNonEmpty(n) : BagIn(IndexRow(n, i), nsums)
            \/ model(n).cloze /\ clozePreFlushRaises(n)

\* two persisted notes of one template set with the same non-empty value in
\* a unique field, the second just flushed
C10_Witness ==
    /\ FlushedOk(1)
    /\ InSync(1) /\ InSync(2)
    /\ note[1].mid = 1 /\ note[2].mid = 1
    /\ note[1].fields[1] = StrA /\ note[2].fields[1] = StrA
    /\ problems(1)[1] = "unique"

(***************************************************************************)
(* Properties of the flush of cloze notes (under SpecCloze).               *)
(***************************************************************************)
\* this step is a call of flush on note n
FlushStep(n) == last'.op = "flush" /\ last'.nid = n

\* note n has a card as the step begins
HadCards(n) == cardsOf(n) # {}

C4_FailedFlushWritesNothing ==
    [][\A n \in NoteIds :
          FlushStep(n) =>
              /\ (model(n).cloze /\ \E c \in cardsOf(n) :
                                        c.ord \notin templateOrds(note[n].fields))
                    <=> ~last'.ok
              /\ ~last'.ok =>
                    /\ notesTbl' = notesTbl
                    /\ nsums' = nsums
                    /\ registry' = registry
                    /\ cards' = cards
                    /\ genReqs' = genReqs
                    /\ note'[n].mod = note[n].mod
                    /\ note'[n].usn = note[n].usn]_vars

\* a failed flush of a note whose fields, tags and time all differ from what
\* is stored
C4_Witness ==
    /\ last = [op |-> "flush", nid |-> 1, ok |-> FALSE]
    /\ notesTbl[1].live
    /\ notesTbl[1].flds # joinedFields(1)
    /\ notesTbl[1].tags # stringTags(1)
    /\ SeqToSet(note[1].tags) \ registry # {}
    /\ note[1].mod < clock

C12_UnknownKeyRaises ==
    \A n \in NoteIds :
        note[n].live =>
            \A key \in AllKeys :
                IF key \in FieldNames(note[n].mid)
                THEN LET i == (CHOOSE j \in 1..Len(Models(note[n].mid).flds) :
                                  Models(note[n].mid).flds[j].name = key)
                     IN  /\ fieldOrd(n, key) = i - 1
                         /\ getitem(n, key) = note[n].fields[i]
                         /\ \A v \in RoundVals :
                               /\ Len(setitem(n, key, v)) = Len(note[n].fields)
                               /\ setitem(n, key, v)[i] = v
                               /\ \A j \in 1..Len(note[n].fields) :
                                     j # i => setitem(n, key, v)[j] = note[n].fields[j]
                ELSE /\ fieldOrd(n, key) < 0
                     /\ getitem(n, key) = "KeyError"
                     /\ \A v \in RoundVals : setitem(n, key, v) = note[n].fields

\* a set with an unknown key has just raised on a note that holds a value
C12_Witness ==
    /\ last = [op |-> "set", nid |-> 1, ok |-> FALSE]
    /\ note[1].live
    /\ note[1].fields[1] # EmptyStr

C14_DelTagRemovesAllMatches ==
    [][\A n \in NoteIds :
          (last'.op = "delTag" /\ last'.nid = n) =>
              /\ note'[n].tags =
                     SelectSeq(note[n].tags,
                               LAMBDA t : lower(t) # lower(last'.tag))
              /\ note' = [note EXCEPT ![n].tags = note'[n].tags]
              /\ UNCHANGED <<notesTbl, nsums, cards, registry>>]_vars

\* delTag("Foo") on the tags foo, Bar, FOO has left Bar
C14_Witness ==
    /\ last.op = "delTag"
    /\ last.tag = "Foo"
    /\ last.before = <<"foo", "Bar", "FOO">>
    /\ note[last.nid].tags = <<"Bar">>

\* C15: after updateCardGids every card of the note whose template pins no
\* group is in the note's group; a card whose template pins a group, or that
\* was in the note's group already, is neither changed nor flushed; cards of
\* other notes, the notes and the rows are left alone.
C15_GroupPropagated ==
    [][\A n \in NoteIds :
          (last'.op = "updateCardGids" /\ last'.nid = n) =>
              /\ \A c \in cardsOf(n) :
                    IF templateGid(note[n].mid, c.ord) = 0
                    THEN [c EXCEPT !.gid = note[n].gid] \in cards'
                    ELSE c \in cards'
              /\ \A c \in cardsOf(n) :
                    (templateGid(note[n].mid, c.ord) # 0 \/ c.gid = note[n].gid)
                        => c \in cards' /\ c.ord \notin last'.flushed
              /\ \A c \in cardsOf(n) :
                    (templateGid(note[n].mid, c.ord) = 0 /\ c.gid # note[n].gid)
                        => c.ord \in last'.flushed
              /\ Cardinality(cards') = Cardinality(cards)
              /\ \A c \in cards : c.nid # n => c \in cards'
              /\ UNCHANGED <<note, notesTbl, nsums>>]_vars

\* updateCardGids of note 1, moved to group 2, has moved and flushed the card
\* of the unpinned template and left the card of the pinned template
C15_Witness ==
    /\ last.op = "updateCardGids"
    /\ last.nid = 1
    /\ last.flushed = {0}
    /\ note[1].gid = 2
    /\ [nid |-> 1, ord |-> 0, gid |-> 2] \in cards
    /\ [nid |-> 1, ord |-> 1, gid |-> 1] \in cards
    /\ [nid |-> 2, ord |-> 0, gid |-> 1] \in cards

\* C17: a flush of note n, completed or not, leaves the row of every other
\* note and every nsums row of every other note as they were, whatever the
\* order in which the notes are flushed.
C17_FlushLeavesOtherNotes ==
    [][\A n \in NoteIds :
          FlushStep(n) =>
              \A o \in NoteIds \ {n} :
                  /\ notesTbl'[o] = notesTbl[o]
                  /\ \A r \in BagToSet(nsums) \cup BagToSet(nsums') :
                        r.nid = o => CopiesIn(r, nsums') = CopiesIn(r, nsums)]_vars

\* note 1 has been flushed after note 2, both of one model and with a
\* checksum in common, and the row and index rows of note 2 are there
C17_Witness ==
    /\ FlushedOk(1)
    /\ InSync(2)
    /\ \E r1 \in RowsOf(1), r2 \in RowsOf(2) :
          r1.csum = r2.csum /\ r1.mid = r2.mid
    /\ \E r2 \in RowsOf(2) : CopiesIn(r2, nsums) = 2

\* statement s of the running flush is executed in this step
Did(s) ==
    /\ flushing
    /\ last'.op = "flushing"
    /\ s \in last'.done
    /\ s \notin last.done

\* C16: within one flush the cloze check and the stamps come before any
\* write, the row is written before the index is rebuilt, the index is
\* rebuilt before the tags are registered, and the cloze post-flush call comes
\* last; a flush that raises in the check has written nothing; whenever the
\* index is rebuilt the row already holds the values of the note.
C16_FlushOrder ==
    [][/\ (notesTbl' # notesTbl) => Did("write")
       /\ (nsums' # nsums) => Did("index")
       /\ (registry' # registry) => Did("register")
       /\ (flushing /\ (cards' # cards \/ genReqs' # genReqs)) => Did("post")
       /\ Did("write") => "pre" \in last.done
       /\ Did("index") =>
              /\ "write" \in last.done
              /\ notesTbl[last.nid] = noteRow(note[last.nid])
       /\ Did("register") => "index" \in last.done
       /\ Did("post") => last'.done = SeqToSet(flushOrder)
       /\ (last'.op = "flush" /\ ~last'.ok) =>
              /\ last.done = {}
              /\ UNCHANGED <<notesTbl, nsums, registry, cards, genReqs>>
       /\ (last'.op = "flush" /\ last'.ok) =>
              last.done = {"pre", "write", "index", "register", "post"}]_vars

\* a flush of a cloze note with a card has run all its statements: the row
\* and the index hold the values of the note, its tag is registered and the
\* generation of cards was requested
C16_Witness ==
    /\ flushing
    /\ last.done = {"pre", "write", "index", "register", "post"}
    /\ model(last.nid).cloze
    /\ InSync(last.nid)
    /\ RowsOf(last.nid) # {}
    /\ "foo" \in registry
    /\ genReqs[last.nid] = 1

====
